---- MODULE Spec2Model ----
(***************************************************************************)
(* Model of podcomm/radio.py: class Radio, the exchange engine that turns  *)
(* one request message into packet exchanges with the Pod and keeps the    *)
(* two sequence counters and the last-received packet memo.                *)
(*                                                                         *)
(* One call of send_request_get_response is a sequence of steps, each      *)
(* running from one transmission or reception of the driver to the next.   *)
(* A step that raises, or returns the response, runs on through the        *)
(* finally clause of _send_request_get_response and the except clauses of  *)
(* send_request_get_response to the caller.                                *)
(***************************************************************************)
EXTENDS Integers, Sequences, FiniteSets, TLC

VARIABLES
    messageSequence,        \* self.messageSequence
    packetSequence,         \* self.packetSequence
    last_packet_received,   \* self.last_packet_received (NoPacket models None)
    connected,              \* state of self.rileyLink
    pc,                     \* position of the call: the driver primitive it is about to invoke
    raised,                 \* exception that left _send_request ("none": it returned)
    reason,                 \* the raise statement it came from
    escaped,                \* exception that reached the caller ("none": the call returned)
    returned,               \* TRUE when the response message is the call's value
    stay_connected,         \* argument of the call
    packet_count,           \* len(packets)
    packet_index,           \* packet_index of _send_request
    sent_type,              \* packet_to_send.type
    sent_sequence,          \* packet_to_send.sequence after setSequence
    expected_type,          \* expected_type of _exchange_packets
    expected_sequence,      \* expected_sequence of _exchange_packets
    send_retries,           \* send_retries of _exchange_packets
    pod_state,              \* pod_response.state
    pod_sequence,           \* pod_response.sequence
    message_stamp,          \* message.sequence after setSequence
    \* history of the current call, read only by the properties
    entry,                  \* <<messageSequence, packetSequence, last_packet_received>> at call
    con_count,              \* CON packets accepted in this call
    accepted,               \* replies accepted by _exchange_packets in this call
    sends,                  \* hand-offs to the driver of the PDM packet being exchanged
    disconnects,            \* rileyLink.disconnect invocations in this call
    heard,                  \* what the last driver return of this call was taken for
    calls                   \* calls started so far

vars == <<messageSequence, packetSequence, last_packet_received, connected, pc,
          raised, reason, escaped, returned, stay_connected, packet_count, packet_index,
          sent_type, sent_sequence, expected_type, expected_sequence,
          send_retries, pod_state, pod_sequence, message_stamp,
          entry, con_count, accepted, sends, disconnects, heard, calls>>

(***************************************************************************)
(* Bounds of the model.                                                    *)
(***************************************************************************)
MaxPackets == 2     \* outgoing packets per message
MaxCon == 1         \* continuation packets per response
MaxCalls == 2       \* calls of send_request_get_response per behaviour

(***************************************************************************)
(* Program constants.                                                      *)
(***************************************************************************)
PacketModulus == 32
MessageModulus == 16
SendRetries == 3

PacketTypes == {"PDM", "POD", "ACK", "CON"}
MessageStates == {"Incomplete", "Complete", "Invalid"}

PodAddress == "pod"         \* message.address, the paired Pod
OtherAddress == "other"     \* any other Pod on the air

\* None, as a packet
NoPacket == [address |-> "none", type |-> "None", sequence |-> 0]

(***************************************************************************)
(* Bytes returned by the driver: None, or a buffer described by what       *)
(* _get_packet looks at: its length, whether its last byte is the CRC of   *)
(* data[2:-1], whether Packet.from_data decodes it, and the decoded packet.*)
(***************************************************************************)
NoData == [present |-> FALSE, long |-> FALSE, crc_ok |-> FALSE, decodes |-> FALSE,
           packet |-> NoPacket]
ShortBuffer == [present |-> TRUE, long |-> FALSE, crc_ok |-> FALSE, decodes |-> FALSE,
                packet |-> NoPacket]
BadCrcBuffer(p) == [present |-> TRUE, long |-> TRUE, crc_ok |-> FALSE, decodes |-> TRUE,
                    packet |-> p]
UndecodableBuffer == [present |-> TRUE, long |-> TRUE, crc_ok |-> TRUE, decodes |-> FALSE,
                      packet |-> NoPacket]
Frame(p) == [present |-> TRUE, long |-> TRUE, crc_ok |-> TRUE, decodes |-> TRUE,
             packet |-> p]

Packet(a, t, s) == [address |-> a, type |-> t, sequence |-> s]

_get_packet_noCrcCheck(data) ==
    IF data.present /\ data.long
    THEN IF data.decodes THEN data.packet ELSE NoPacket
    ELSE NoPacket

\* Radio._get_packet
_get_packet(data) ==
    IF data.present /\ data.long
    THEN IF data.crc_ok
         THEN IF data.decodes THEN data.packet ELSE NoPacket
         ELSE NoPacket
    ELSE NoPacket

(***************************************************************************)
(* Arithmetic and tests of the engine.                                     *)
(***************************************************************************)
\* Mutants: a definition named X_how is X, defined after it, changed the way
\* a slip in the code would change it.

ExpectedSequence(ps) == (ps + 1) % PacketModulus

AcceptedSequence_unchanged(ps) == ps

AcceptedSequence_oneTick(ps) == (ps + 1) % PacketModulus

AcceptedSequence(ps) == (ps + 2) % PacketModulus

ResyncSequence_noModulus(p) == p.sequence + 1

ResyncSequence_noIncrement(p) == p.sequence % PacketModulus

ResyncSequence(p) == (p.sequence + 1) % PacketModulus

ResyncMessageSequence_kept(ms) == ms

\* lines 127 and 166
ResyncMessageSequence(ms) == 0

FinalResyncSequence_noAdvance(ps) == ps

FinalResyncSequence(ps) == (ps + 1) % PacketModulus

FinalSequence_noAdvance(ps) == ps

FinalSequence(ps) == (ps + 1) % PacketModulus

NextMessageSequence_noIncrement(seq) == seq % MessageModulus

NextMessageSequence(seq) == (seq + 1) % MessageModulus

ExpectedType(index, count) == IF index = count THEN "POD" ELSE "ACK"

ConsumesRetry_always(type) == TRUE

ConsumesRetry_never(type) == FALSE

ConsumesRetry(type) == type = "PDM"

IsMismatch_typeOnly(p, etype, eseq) == p.type # etype

IsMismatch_sequenceOnly(p, etype, eseq) == p.sequence # eseq

IsMismatch(p, etype, eseq) == p.type # etype \/ p.sequence # eseq

IsPrevious_never(p, last) == FALSE

IsPrevious(p, last) ==
    /\ last # NoPacket
    /\ p.type = last.type
    /\ p.sequence = last.sequence

FinalIgnores_illegalOnly(p, last) == p = NoPacket

\* _send_packet, lines 153-163: the received packets the loop passes over
FinalIgnores(p, last) ==
    \/ p = NoPacket
    \/ p.address # PodAddress
    \/ IsPrevious(p, last)

IsInvalid_never(st) == FALSE

\* _send_request, line 77
IsInvalid(st) == st = "Invalid"

DisconnectsOn_always(exc) == TRUE

DisconnectsOn(exc) == exc # "TransmissionOutOfSyncError"

Min(a, b) == IF a < b THEN a ELSE b

(***************************************************************************)
(* External collaborators, known to the engine through their contracts.    *)
(***************************************************************************)
\* Message.getPackets: a non-empty list of PDM packets
PacketCounts == 1..MaxPackets

\* pod_response.sequence of a response built by Message.fromPacket
ResponseSequences == {7, MessageModulus - 1}

\* pod_response.state after Message.fromPacket / addConPacket, when `cons`
\* continuation packets have been appended
AssemblerStates(cons) ==
    IF cons < MaxCon THEN MessageStates ELSE {"Complete", "Invalid"}

\* RileyLink.disconnect(ignore_errors): the outcomes the driver may produce
DisconnectOutcomes(ignore_errors, link) ==
    {[raises |-> FALSE, link |-> FALSE]} \cup
    (IF ignore_errors THEN {}
     ELSE {[raises |-> TRUE, link |-> l] : l \in {link, FALSE}})

\* sequences the peer may put in a reply: the expected one, the one after
\* it, the one of the previous reply and the one that rewinds the engine to
\* just before the previous reply
PeerSequences ==
    {expected_sequence, (expected_sequence + 1) % PacketModulus} \cup
    (IF last_packet_received = NoPacket THEN {}
     ELSE {last_packet_received.sequence,
           (last_packet_received.sequence + PacketModulus - 2) % PacketModulus})

\* packet types the Pod sends
PeerTypes == {"POD", "ACK", "CON"}

\* what send_and_receive_packet and get_packet may return
DriverReturns ==
    {NoData, ShortBuffer, UndecodableBuffer,
     BadCrcBuffer(Packet(PodAddress, expected_type, expected_sequence)),
     Frame(Packet(OtherAddress, expected_type, expected_sequence))} \cup
    {Frame(Packet(PodAddress, t, s)) : t \in PeerTypes, s \in PeerSequences}

\* history: what a driver return was: silence, an illegal buffer (too
\* short, failing the CRC or not decoding), a packet
\* of another address, or a packet of the Pod with its type and sequence,
\* read against the memo `last` and, in _exchange_packets, the expected
\* type `etype` ("None" in _send_packet)
Note(what) == [what |-> what, type |-> "None", sequence |-> 0]

Heard(data, last, etype) ==
    LET p == data.packet IN
    IF data = NoData THEN Note("silence")
    ELSE IF ~(data.long /\ data.crc_ok /\ data.decodes) THEN Note("illegal")
    ELSE IF p.address # PodAddress THEN Note("foreign")
    ELSE [what |-> IF last # NoPacket /\ p.type = last.type
                                      /\ p.sequence = last.sequence
                   THEN "previous"
                   ELSE IF p.type # etype THEN "new, other type"
                   ELSE "new, expected type",
          type |-> p.type, sequence |-> p.sequence]

\* what they may return in _send_packet, which looks at a packet only to
\* compare its type and sequence with the memo's
FinalReturns ==
    {NoData, ShortBuffer, UndecodableBuffer,
     BadCrcBuffer(Packet(PodAddress, "POD", 0)),
     Frame(Packet(OtherAddress, "POD", 0))} \cup
    (IF last_packet_received = NoPacket
     THEN {Frame(Packet(PodAddress, t, 0)) : t \in PeerTypes}
     ELSE {Frame(Packet(PodAddress, t, last_packet_received.sequence))
              : t \in PeerTypes} \cup
          {Frame(Packet(PodAddress, last_packet_received.type,
                        (last_packet_received.sequence + 1) % PacketModulus))})

(***************************************************************************)
(* Initial state: Radio.__init__ with seeds for the two counters.          *)
(***************************************************************************)
Seeds == {<<0, 0>>, <<MessageModulus - 1, PacketModulus - 1>>}

Init ==
    /\ \E seed \in Seeds : /\ messageSequence = seed[1]
                           /\ packetSequence = seed[2]
    /\ last_packet_received = NoPacket
    /\ connected = FALSE
    /\ pc = "idle"
    /\ raised = "none"
    /\ reason = "none"
    /\ escaped = "none"
    /\ returned = FALSE
    /\ stay_connected = TRUE
    /\ packet_count = 1
    /\ packet_index = 1
    /\ sent_type = "None"
    /\ sent_sequence = 0
    /\ expected_type = "None"
    /\ expected_sequence = 0
    /\ send_retries = 0
    /\ pod_state = "None"
    /\ pod_sequence = 0
    /\ message_stamp = 0
    /\ entry = <<messageSequence, packetSequence, last_packet_received>>
    /\ con_count = 0
    /\ accepted = 0
    /\ sends = 0
    /\ disconnects = 0
    /\ heard = Note("nothing yet")
    /\ calls = 0

engine == <<messageSequence, packetSequence, last_packet_received>>
callArgs == <<stay_connected, packet_count, message_stamp, entry, calls>>
response == <<pod_state, pod_sequence, con_count>>
exchange == <<sent_type, sent_sequence, expected_type, expected_sequence>>
outcome == <<raised, reason, escaped, returned>>
radioLink == <<connected, disconnects>>

\* _exchange_packets, lines 91-94: stamp the packet, fix what is expected
BeginExchange(type, etype, ps) ==
    /\ sent_type' = type
    /\ sent_sequence' = ps
    /\ expected_type' = etype
    /\ expected_sequence' = ExpectedSequence(ps)
    /\ send_retries' = SendRetries
    /\ sends' = 0
    /\ pc' = "exchange"

\* the call goes on to its next driver invocation
GoesOn == UNCHANGED <<outcome, disconnects>>

\* the locals of _send_request, _exchange_packets and _send_packet are gone
\* once the exception or the return value has left them
LeaveFrames ==
    /\ packet_index' = 1
    /\ sent_type' = "None"
    /\ sent_sequence' = 0
    /\ expected_type' = "None"
    /\ expected_sequence' = 0
    /\ send_retries' = 0
    /\ sends' = 0

(***************************************************************************)
(* Leaving the call.  `exc` is the exception leaving _send_request ("none" *)
(* when it returns the response), `lnk` the state of the link then.        *)
(***************************************************************************)
FinallyClause_onlyOnReturn(exc, lnk, stay) ==
    IF stay \/ exc # "none"
    THEN {[raised |-> exc, link |-> lnk, disconnects |-> 0]}
    ELSE {[raised |-> IF o.raises THEN "RileyLinkError" ELSE exc,
           link |-> o.link, disconnects |-> 1]
          : o \in DisconnectOutcomes(FALSE, lnk)}

\* _send_request_get_response, lines 38-43: the except clause re-raises, the
\* finally clause disconnects when stay_connected is false, and an exception
\* raised by the disconnect replaces the exception or the return value
FinallyClause(exc, lnk, stay) ==
    IF stay
    THEN {[raised |-> exc, link |-> lnk, disconnects |-> 0]}
    ELSE {[raised |-> IF o.raises THEN "RileyLinkError" ELSE exc,
           link |-> o.link, disconnects |-> 1]
          : o \in DisconnectOutcomes(FALSE, lnk)}

ExceptClause_reraiseOnly(f) == {f}

\* send_request_get_response, lines 23-27
ExceptClause(f) ==
    IF f.raised # "none" /\ DisconnectsOn(f.raised)
    THEN {[f EXCEPT !.link = o.link, !.disconnects = f.disconnects + 1]
          : o \in DisconnectOutcomes(TRUE, f.link)}
    ELSE {f}

Leave(exc, why, lnk) ==
    /\ pc' = "done"
    /\ LeaveFrames
    /\ raised' = exc
    /\ reason' = why
    /\ \E f \in FinallyClause(exc, lnk, stay_connected) :
          \E e \in ExceptClause(f) :
             /\ escaped' = e.raised
             /\ returned' = (e.raised = "none")
             /\ connected' = e.link
             /\ disconnects' = e.disconnects

(***************************************************************************)
(* send_request_get_response -> _send_request_get_response ->              *)
(* _send_request, up to the first invocation of the driver.                *)
(***************************************************************************)
send_request_get_response(n, stay) ==
    /\ pc \in {"idle", "done"}
    /\ calls < MaxCalls
    /\ calls' = calls + 1
    /\ stay_connected' = stay
    /\ entry' = <<messageSequence, packetSequence, last_packet_received>>
    /\ message_stamp' = messageSequence
    /\ packet_count' = n
    /\ packet_index' = 1
    /\ raised' = "none"
    /\ reason' = "none"
    /\ escaped' = "none"
    /\ returned' = FALSE
    /\ heard' = Note("nothing yet")
    /\ pod_state' = "None"
    /\ pod_sequence' = 0
    /\ con_count' = 0
    /\ accepted' = 0
    /\ disconnects' = 0
    /\ BeginExchange("PDM", ExpectedType(1, n), packetSequence)
    /\ UNCHANGED <<engine, connected>>

(***************************************************************************)
(* _send_request once _exchange_packets has returned packet p: the checks  *)
(* of lines 58-63 and 71-74, then the next request packet, or the assembly *)
(* of the response (state `st`, sequence `sq` from the assembler) and what *)
(* its state leads to.                                                     *)
(***************************************************************************)
Assembled(st, sq, cons) ==
    /\ pod_state' = st
    /\ pod_sequence' = sq
    /\ con_count' = cons
    /\ UNCHANGED packet_index
    /\ IF st = "Incomplete"
       THEN /\ BeginExchange("ACK", "CON", packetSequence')
            /\ connected' = TRUE
            /\ GoesOn
       ELSE IF IsInvalid(st)
       THEN Leave("ProtocolError", "Received message is not valid", TRUE)
       ELSE \* Packet.Ack(address, True) enters _send_packet
            /\ sent_type' = "ACK"
            /\ sent_sequence' = packetSequence'
            /\ pc' = "final"
            /\ connected' = TRUE
            /\ UNCHANGED <<expected_type, expected_sequence, send_retries, sends>>
            /\ GoesOn

Returned(p, st, sq) ==
    IF p = NoPacket
    THEN /\ Leave("ProtocolError", "Timeout reached waiting for a response.", TRUE)
         /\ UNCHANGED <<response>>
    ELSE IF p.type # expected_type
    THEN /\ Leave("ProtocolError", "Invalid response received.", TRUE)
         /\ UNCHANGED <<response>>
    ELSE IF sent_type = "PDM"
    THEN IF packet_index < packet_count
         THEN /\ packet_index' = packet_index + 1
              /\ BeginExchange("PDM", ExpectedType(packet_index + 1, packet_count),
                               packetSequence')
              /\ connected' = TRUE
              /\ UNCHANGED <<response>>
              /\ GoesOn
         ELSE \* Message.fromPacket(received)
              /\ st \in AssemblerStates(0)
              /\ Assembled(st, sq, 0)
    ELSE \* pod_response.addConPacket(received)
         /\ st \in AssemblerStates(con_count + 1)
         /\ sq = pod_sequence
         /\ Assembled(st, sq, con_count + 1)

(***************************************************************************)
(* _exchange_packets: one iteration of the while loop, the driver          *)
(* returning `data`; when the reply is accepted, _send_request goes on     *)
(* with it.                                                                *)
(***************************************************************************)
_exchange_packets(data) ==
    /\ pc = "exchange"
    /\ send_retries > 0
    /\ UNCHANGED callArgs
    /\ LET retries == IF ConsumesRetry(sent_type) THEN send_retries - 1
                      ELSE send_retries
           p == _get_packet(data)
           ignored == \/ p = NoPacket
                      \/ p.address # PodAddress
                      \/ /\ IsMismatch(p, expected_type, expected_sequence)
                         /\ IsPrevious(p, last_packet_received)
       IN
       /\ heard' = Heard(data, last_packet_received, expected_type)
       /\ IF ignored
          THEN \* continue; the else clause of the while raises
               /\ UNCHANGED <<engine, response, accepted>>
               /\ IF retries > 0
                  THEN /\ pc' = "exchange"
                       /\ send_retries' = retries
                       /\ sends' = (IF sent_type = "PDM"
                                    THEN Min(sends + 1, SendRetries + 1)
                                    ELSE sends)
                       /\ connected' = TRUE
                       /\ UNCHANGED <<exchange, packet_index>>
                       /\ GoesOn
                  ELSE Leave("ProtocolError", "Exceeded retry count", TRUE)
          ELSE IF IsMismatch(p, expected_type, expected_sequence)
          THEN \* resynchronization requested
               /\ packetSequence' = ResyncSequence(p)
               /\ messageSequence' = ResyncMessageSequence(messageSequence)
               /\ UNCHANGED <<last_packet_received, response, accepted>>
               /\ Leave("TransmissionOutOfSyncError", "exchange", TRUE)
          ELSE \* the reply is accepted and returned to _send_request
               /\ packetSequence' = AcceptedSequence(packetSequence)
               /\ last_packet_received' = p
               /\ accepted' = accepted + 1
               /\ UNCHANGED messageSequence
               /\ \E st \in MessageStates, sq \in ResponseSequences : Returned(p, st, sq)

\* _exchange_packets: the driver raises RileyLinkError
_exchange_packets_error ==
    /\ pc = "exchange"
    /\ send_retries > 0
    /\ Leave("ProtocolError", "Radio error during send and receive", connected)
    /\ heard' = Note("radio error")
    /\ UNCHANGED <<engine, callArgs, response, accepted>>

(***************************************************************************)
(* _send_packet: the end-of-conversation ACK.                              *)
(***************************************************************************)
\* lines 152-167: what a received buffer does to the loop
FinalReceived(data) ==
    LET p == _get_packet(data) IN
    IF FinalIgnores(p, last_packet_received)
    THEN /\ pc' = "final"
         /\ connected' = TRUE
         /\ UNCHANGED <<engine, exchange, send_retries, sends, packet_index>>
         /\ GoesOn
    ELSE /\ packetSequence' = FinalResyncSequence(packetSequence)
         /\ messageSequence' = ResyncMessageSequence(messageSequence)
         /\ UNCHANGED last_packet_received
         /\ Leave("TransmissionOutOfSyncError", "final", TRUE)

\* send_and_receive_packet of the loop
_send_packet(data) ==
    /\ pc = "final"
    /\ UNCHANGED <<callArgs, response, accepted>>
    /\ heard' = Heard(data, last_packet_received, "None")
    /\ IF data = NoData
       THEN /\ pc' = "passive"
            /\ connected' = TRUE
            /\ UNCHANGED <<engine, exchange, send_retries, sends, packet_index>>
            /\ GoesOn
       ELSE FinalReceived(data)

\* get_packet(2.5) after a silent send; silence ends the conversation and
\* _send_request returns the response (lines 169, 87-88)
_send_packet_get_packet(data) ==
    /\ pc = "passive"
    /\ UNCHANGED <<callArgs, response, accepted>>
    /\ heard' = Heard(data, last_packet_received, "None")
    /\ IF data = NoData
       THEN /\ packetSequence' = FinalSequence(packetSequence)
            /\ messageSequence' = NextMessageSequence(pod_sequence)
            /\ UNCHANGED last_packet_received
            /\ Leave("none", "none", TRUE)
       ELSE FinalReceived(data)

\* either driver primitive raises RileyLinkError
_send_packet_error ==
    /\ pc \in {"final", "passive"}
    /\ Leave("ProtocolError", "Radio error during sending", connected)
    /\ heard' = Note("radio error")
    /\ UNCHANGED <<engine, callArgs, response, accepted>>

Next ==
    \/ \E n \in PacketCounts, stay \in BOOLEAN : send_request_get_response(n, stay)
    \/ \E data \in DriverReturns : _exchange_packets(data)
    \/ _exchange_packets_error
    \/ \E data \in FinalReturns : _send_packet(data)
    \/ \E data \in FinalReturns : _send_packet_get_packet(data)
    \/ _send_packet_error

Spec == Init /\ [][Next]_vars

(***************************************************************************)
(* Properties.                                                             *)
(***************************************************************************)
OutOfSync == "TransmissionOutOfSyncError"

Done == pc = "done"

\* the step received a packet with valid CRC and the Pod's address
HeardPacket ==
    heard'.what \in {"previous", "new, other type", "new, expected type"}

\* (type, sequence) of the packet received in the step equals the memo's
SameAsMemo ==
    /\ last_packet_received # NoPacket
    /\ heard'.type = last_packet_received.type
    /\ heard'.sequence = last_packet_received.sequence

\* the packet received in the step is the one _exchange_packets expects
Expected ==
    /\ heard'.type = expected_type
    /\ heard'.sequence = (packetSequence + 1) % 32

\* C1 as stated: after a successful call packet_sequence is
\* (p0 + 2n + 1) mod 32, n the number of outgoing packets.
C1_AsStated ==
    (Done /\ returned) =>
        packetSequence = (entry[2] + 2 * packet_count + 1) % 32

\* C1, amended: after a successful call packet_sequence is
\* (p0 + 2(n + k) + 1) mod 32, n the number of outgoing packets and k the
\* number of CON packets accepted while the response was assembled.
C1_PacketSequenceAfterSuccess ==
    (Done /\ returned) =>
        packetSequence = (entry[2] + 2 * (packet_count + con_count) + 1) % 32

C1_Witness ==
    /\ Done /\ returned
    /\ packet_count = 2
    /\ con_count = 1
    /\ packetSequence < entry[2]

\* C2: in _exchange_packets a reply with valid CRC and the expected address
\* whose (type, sequence) differs from (expected type, (packet_sequence + 1)
\* mod 32) and from the memo's sets packet_sequence to (reply.sequence + 1)
\* mod 32 and message_sequence to 0, leaves the memo alone and raises
\* TransmissionOutOfSync.
C2_ResyncInExchange ==
    [][(pc = "exchange" /\ HeardPacket /\ ~Expected /\ ~SameAsMemo) =>
          /\ packetSequence' = (heard'.sequence + 1) % 32
          /\ messageSequence' = 0
          /\ last_packet_received' = last_packet_received
          /\ raised' = OutOfSync
          /\ pc' = "done"]_vars

C2_Witness ==
    /\ Done
    /\ raised = OutOfSync
    /\ reason = "exchange"
    /\ heard.what = "new, expected type"
    /\ heard.sequence = 31
    /\ last_packet_received # NoPacket
    /\ packetSequence = 0
    /\ messageSequence = 0
    /\ entry[1] # 0

\* C3 as stated: when the call fails with TransmissionOutOfSync the engine
\* has not disconnected the link, whatever stay_connected is.
C3_AsStated ==
    (Done /\ escaped = OutOfSync) => (connected /\ disconnects = 0)

\* C3, amended: when the call fails with TransmissionOutOfSync and
\* stay_connected is true, the engine has not disconnected the link and the
\* link is connected; when stay_connected is false the finally clause has
\* disconnected it, once.
C3_LinkOnOutOfSync ==
    (Done /\ escaped = OutOfSync) =>
        IF stay_connected
        THEN connected /\ disconnects = 0
        ELSE ~connected /\ disconnects = 1

C3_Witness ==
    /\ Done
    /\ escaped = OutOfSync
    /\ stay_connected
    /\ connected

\* C4: when the call fails with an error other than TransmissionOutOfSync
\* the link has been disconnected before the error reaches the caller, for
\* both values of stay_connected.
C4_DisconnectedOnFailure ==
    (Done /\ escaped \notin {"none", OutOfSync}) =>
        (~connected /\ disconnects >= 1)

C4_Witness ==
    /\ Done
    /\ escaped = "ProtocolError"
    /\ stay_connected
    /\ reason = "Received message is not valid"
    /\ ~connected

TreatedAsSilence ==
    /\ UNCHANGED <<messageSequence, packetSequence, last_packet_received>>
    /\ raised' # OutOfSync
    /\ pc' \in {"exchange", "final"} \/ reason' = "Exceeded retry count"

\* C5 as stated: in _exchange_packets and _send_packet a reply with valid
\* CRC and the expected address whose (type, sequence) equals the memo's is
\* never accepted, changes neither counter nor the memo and raises no
\* TransmissionOutOfSync, also when it is the expected reply.
C5_AsStated ==
    [][(pc \in {"exchange", "final", "passive"} /\ HeardPacket /\ SameAsMemo)
          => TreatedAsSilence]_vars

\* C5, amended: such a reply is treated as silence in _send_packet, and in
\* _exchange_packets when it differs from (expected type, expected reply
\* sequence); in _exchange_packets a reply that is the expected one is
\* accepted although it equals the memo.
C5_PreviousReplyIgnored ==
    [][(pc \in {"exchange", "final", "passive"} /\ HeardPacket /\ SameAsMemo) =>
          IF pc = "exchange" /\ Expected
          THEN /\ packetSequence' = (packetSequence + 2) % 32
               /\ last_packet_received'.type = heard'.type
               /\ last_packet_received'.sequence = heard'.sequence
               /\ messageSequence' = messageSequence
               /\ raised' # OutOfSync
          ELSE TreatedAsSilence]_vars

C5_Witness ==
    /\ pc = "exchange"
    /\ heard.what = "previous"
    /\ sent_type = "PDM"
    /\ sends = 1
    /\ packetSequence = sent_sequence

\* C6: a PDM packet is handed to the driver at most 3 times in one
\* _exchange_packets; each hand-off that ends in silence (or an ignored
\* buffer) consumes one retry and changes neither counter nor the memo, and
\* when the third ends so the call fails with Protocol (exceeded retry
\* count), counters and memo unchanged.
C6_PdmRetryBudget ==
    [][(pc = "exchange" /\ sent_type = "PDM") =>
          /\ sends < 3
          /\ sends + send_retries = 3
          /\ (\/ heard'.what \in {"silence", "illegal", "foreign"}
              \/ heard'.what = "previous" /\ ~Expected) =>
                /\ UNCHANGED <<messageSequence, packetSequence, last_packet_received>>
                /\ IF sends < 2
                   THEN /\ pc' = "exchange"
                        /\ sends' = sends + 1
                        /\ send_retries' = send_retries - 1
                        /\ raised' = "none"
                   ELSE /\ pc' = "done"
                        /\ raised' = "ProtocolError"
                        /\ reason' = "Exceeded retry count"]_vars

C6_Witness ==
    /\ Done
    /\ raised = "ProtocolError"
    /\ reason = "Exceeded retry count"
    /\ heard.what = "silence"
    /\ packet_count = 2
    /\ last_packet_received # entry[3]

\* C7: every error that escapes the call is TransmissionOutOfSync or
\* Protocol; a driver error never reaches the caller unwrapped and never
\* replaces a successful return or a TransmissionOutOfSync.
C7_OnlyProtocolOrOutOfSync ==
    Done => /\ escaped \in {"none", OutOfSync, "ProtocolError"}
            /\ raised = "none" => escaped = "none"
            /\ raised = OutOfSync => escaped = OutOfSync

\* C8 as stated: while the request is sent and the response assembled, a
\* reply (valid CRC, expected address, not the memo's) of a type other than
\* the expected one makes the call fail with Protocol.
C8_AsStated ==
    (Done /\ pod_state # "Complete" /\ heard.what = "new, other type") =>
        escaped = "ProtocolError"

\* C8, amended: such a reply makes _exchange_packets resynchronise: the
\* error that leaves _send_request is TransmissionOutOfSync, with
\* message_sequence 0, and the call does not fail with Protocol.
C8_WrongTypeResyncs ==
    (Done /\ pod_state # "Complete" /\ heard.what = "new, other type") =>
        /\ raised = OutOfSync
        /\ reason = "exchange"
        /\ messageSequence = 0
        /\ escaped # "ProtocolError"

C8_Witness ==
    /\ Done
    /\ pod_state = "Incomplete"
    /\ heard.what = "new, other type"
    /\ escaped = OutOfSync

\* C9: with stay_connected false the link is disconnected on every exit
\* path of the call; with stay_connected true and a successful return the
\* engine never invokes disconnect.
C9_StayConnected ==
    Done => /\ ~stay_connected => (~connected /\ disconnects >= 1)
            /\ (stay_connected /\ returned) => (connected /\ disconnects = 0)

C9_Witness ==
    /\ Done
    /\ ~stay_connected
    /\ escaped = OutOfSync
    /\ ~connected

\* C10: after a successful call message_sequence is (response.sequence + 1)
\* mod 16, whatever it was before, and the outgoing message carried the
\* value message_sequence had when the call began.
C10_MessageSequenceAfterSuccess ==
    (Done /\ returned) =>
        /\ messageSequence = (pod_sequence + 1) % 16
        /\ message_stamp = entry[1]

C10_Witness ==
    /\ Done /\ returned
    /\ pod_sequence = 15
    /\ messageSequence = 0
    /\ entry[1] = 8

\* C11: the call returns a message only when the assembled response is
\* Complete and _send_packet has ended normally, on a silent send followed
\* by a silent passive receive; in every other outcome (state Invalid,
\* resync in _exchange_packets or in _send_packet, retry exhaustion, driver
\* error) an error reaches the caller and nothing is returned.
C11_ReturnsOnlyComplete ==
    Done => /\ returned => /\ pod_state = "Complete"
                           /\ raised = "none"
                           /\ heard.what = "silence"
            /\ (pod_state # "Complete" \/ raised # "none") =>
                  (~returned /\ escaped # "none")
            /\ ~returned => escaped # "none"

C11_Witness ==
    /\ Done /\ returned
    /\ pod_state = "Complete"
    /\ accepted = 3
    /\ stay_connected

\* C12 as stated: when the call fails with an error other than
\* TransmissionOutOfSync, message_sequence, packet_sequence and the memo
\* equal the values they had when the call began.
C12_AsStated ==
    (Done /\ escaped \notin {"none", OutOfSync}) =>
        <<messageSequence, packetSequence, last_packet_received>> = entry

\* C12, amended: when _send_request fails with Protocol, message_sequence
\* equals its value at the call, packet_sequence is that value advanced by 2
\* for each reply accepted in the call, and the memo is the last accepted
\* reply (its value at the call when none was accepted), whether Protocol
\* reaches the caller or the driver's error raised by the disconnect of the
\* finally clause replaces it; when that error replaces a return or a
\* TransmissionOutOfSync (stay_connected false), the engine is as the
\* return or the resync left it.
C12_EngineAfterFailure ==
    (Done /\ escaped \notin {"none", OutOfSync}) =>
        IF raised = "ProtocolError"
        THEN /\ escaped \in {"ProtocolError", "RileyLinkError"}
             /\ messageSequence = entry[1]
             /\ packetSequence = (entry[2] + 2 * accepted) % 32
             /\ IF accepted = 0
                THEN last_packet_received = entry[3]
                ELSE /\ last_packet_received # NoPacket
                     /\ last_packet_received.address = PodAddress
                     /\ last_packet_received.sequence =
                           (entry[2] + 2 * accepted - 1) % 32
        ELSE /\ escaped = "RileyLinkError"
             /\ ~stay_connected
             /\ raised = "none" => messageSequence = (pod_sequence + 1) % 16
             /\ raised = OutOfSync => messageSequence = 0

C12_Witness ==
    /\ Done
    /\ escaped = "ProtocolError"
    /\ reason = "Radio error during send and receive"
    /\ accepted = 2
    /\ packetSequence # entry[2]
    /\ last_packet_received # entry[3]
    /\ messageSequence = entry[1]

\* the variables of the call that a driver return passed over leaves alone
exchangeState == <<messageSequence, packetSequence, last_packet_received,
                   sent_type, sent_sequence, expected_type, expected_sequence,
                   send_retries, packet_index, pod_state, pod_sequence,
                   con_count, accepted, raised, reason, escaped, returned>>

\* C13: in an _exchange_packets whose packet is not a PDM (the ACK sent
\* while CON is expected) silence never consumes a retry: the step leaves
\* the counters, the memo, the packet to send and send_retries (still 3) as
\* they were and raises nothing, so that under permanent silence the
\* invocation never ends; it ends only by an accepted reply, a resync
\* (TransmissionOutOfSync) or a driver error.
C13_FreeRetriesOnSilence ==
    [][(pc = "exchange" /\ sent_type # "PDM") =>
          /\ send_retries = 3
          /\ heard'.what = "silence" =>
                /\ pc' = "exchange"
                /\ UNCHANGED exchangeState
          /\ (pc' = "done" \/ accepted' # accepted) =>
                \/ /\ HeardPacket /\ Expected
                   /\ accepted' = accepted + 1
                \/ /\ HeardPacket /\ ~Expected
                   /\ raised' = OutOfSync
                \/ /\ heard'.what = "radio error"
                   /\ reason' = "Radio error during send and receive"]_vars

C13_Witness ==
    /\ pc = "exchange"
    /\ sent_type = "ACK"
    /\ expected_type = "CON"
    /\ heard.what = "silence"
    /\ send_retries = 3
    /\ raised = "none"

\* C14: _send_packet ends normally only when a send that returned silence
\* is immediately followed by a passive receive that returned silence too;
\* then packet_sequence is its value at entry plus 1 mod 32 and the memo is
\* as it was, and message_sequence, which no step of the loop wrote, takes
\* the value of line 87 as _send_request returns.
C14_FinalEndsOnTwoSilences ==
    [][(pc \in {"final", "passive"}) =>
          /\ packetSequence = sent_sequence
          /\ pc' = "passive" => (pc = "final" /\ heard'.what = "silence")
          /\ pc' \in {"final", "passive"} =>
                UNCHANGED <<messageSequence, packetSequence, last_packet_received>>
          /\ (pc' = "done" /\ raised' = "none") =>
                /\ pc = "passive"
                /\ heard.what = "silence"
                /\ heard'.what = "silence"
                /\ packetSequence' = (sent_sequence + 1) % 32
                /\ last_packet_received' = last_packet_received
                /\ messageSequence' = (pod_sequence + 1) % 16]_vars

C14_Witness ==
    /\ Done
    /\ raised = "none"
    /\ heard.what = "silence"
    /\ last_packet_received # NoPacket
    /\ packetSequence = (last_packet_received.sequence + 2) % 32

\* C15: in _send_packet a reply, to the send or to the passive receive, with
\* valid CRC and the Pod's address whose (type, sequence) differs from the
\* memo's makes the engine resynchronise: packet_sequence becomes
\* (packet_sequence + 1) mod 32, whatever the reply's sequence,
\* message_sequence becomes 0 and the call fails with TransmissionOutOfSync
\* although the response is assembled and Complete.
C15_ResyncInFinal ==
    [][(pc \in {"final", "passive"} /\ HeardPacket /\ ~SameAsMemo) =>
          /\ pod_state = "Complete"
          /\ packetSequence' = (packetSequence + 1) % 32
          /\ messageSequence' = 0
          /\ last_packet_received' = last_packet_received
          /\ raised' = OutOfSync
          /\ ~returned'
          /\ pc' = "done"]_vars

C15_Witness ==
    /\ Done
    /\ raised = OutOfSync
    /\ reason = "final"
    /\ pod_state = "Complete"
    /\ heard.what = "new, other type"
    /\ packetSequence # (heard.sequence + 1) % 32
    /\ messageSequence = 0
    /\ entry[1] # 0

\* C16: _send_packet has no retry bound: an illegal buffer, a packet of
\* another address or a repeat of the previous reply, from the send or from
\* the passive receive after a silent send, takes the loop back to the send
\* with every variable of the call as it was, any number of times; the
\* loop is left by a silent passive receive after a silent send, by the
\* resync on a new valid reply or by a driver error, and by nothing else.
C16_FinalLoopUnbounded ==
    [][(pc \in {"final", "passive"}) =>
          /\ heard'.what \in {"illegal", "foreign", "previous"} =>
                /\ pc' = "final"
                /\ UNCHANGED exchangeState
          /\ pc' = "done" =>
                \/ /\ pc = "passive"
                   /\ heard'.what = "silence"
                   /\ raised' = "none"
                \/ /\ HeardPacket /\ ~SameAsMemo
                   /\ raised' = OutOfSync
                \/ /\ heard'.what = "radio error"
                   /\ reason' = "Radio error during sending"
          /\ (\/ pc = "passive" /\ heard'.what = "silence"
              \/ HeardPacket /\ ~SameAsMemo
              \/ heard'.what = "radio error") => pc' = "done"]_vars

C16_Witness ==
    /\ pc = "final"
    /\ heard.what = "previous"
    /\ raised = "none"
    /\ accepted = 2

\* C17: the memo changes only in the step where _exchange_packets accepts a
\* reply (the Pod's address, the expected type, sequence (packet_sequence +
\* 1) mod 32), and every such step sets it to that reply; silence, illegal
\* and foreign packets, repeats, resync, every step of _send_packet and
\* every failure path leave it as it was.
C17_MemoOnlyOnAccept ==
    [][/\ last_packet_received' # last_packet_received =>
             (pc = "exchange" /\ HeardPacket /\ Expected)
       /\ (pc = "exchange" /\ HeardPacket /\ Expected) =>
             last_packet_received' =
                 Packet(PodAddress, heard'.type, heard'.sequence)]_vars

C17_Witness ==
    /\ entry[3] # NoPacket
    /\ last_packet_received # entry[3]
    /\ heard.what = "new, expected type"
    /\ last_packet_received.sequence = heard.sequence
    /\ accepted = 1

\* C18 as stated: in _exchange_packets a buffer that fails the CRC check or
\* does not decode changes neither counter nor the memo, and the exchange
\* goes on with another transmission instead of failing, whatever the type
\* of the packet sent, PDM included, and however many such buffers came
\* before.
C18_AsStated ==
    [][(pc = "exchange" /\ heard'.what = "illegal") =>
          /\ UNCHANGED <<messageSequence, packetSequence, last_packet_received>>
          /\ pc' = "exchange"
          /\ raised' = "none"]_vars

\* C18, amended: such a buffer changes neither counter nor the memo and
\* raises no TransmissionOutOfSync; the exchange goes on with another
\* transmission of the same packet, except that for a PDM the buffer
\* consumes a retry as silence does, and when it answers the third
\* transmission the call fails with Protocol (exceeded retry count).
C18_IllegalDiscarded ==
    [][(pc = "exchange" /\ heard'.what = "illegal") =>
          /\ UNCHANGED <<messageSequence, packetSequence, last_packet_received>>
          /\ IF sent_type = "PDM" /\ send_retries = 1
             THEN /\ sends = 2
                  /\ pc' = "done"
                  /\ raised' = "ProtocolError"
                  /\ reason' = "Exceeded retry count"
             ELSE /\ pc' = "exchange"
                  /\ raised' = "none"
                  /\ UNCHANGED exchange
                  /\ send_retries' = IF sent_type = "PDM" THEN send_retries - 1
                                     ELSE send_retries]_vars

C18_Witness ==
    /\ Done
    /\ heard.what = "illegal"
    /\ reason = "Exceeded retry count"
    /\ accepted = 1
    /\ messageSequence = entry[1]

\* C19: from seeds in range, in every reachable state message_sequence is
\* in 0..15 and packet_sequence in 0..31, after calls of any outcome and
\* replies of any sequence in 0..31, and the packet being transmitted
\* carries the value packet_sequence had when its exchange began, which is
\* the value it still has.
C19_CountersInRange ==
    /\ messageSequence \in 0..15
    /\ packetSequence \in 0..31
    /\ message_stamp \in 0..15
    /\ pc \in {"exchange", "final", "passive"} =>
          /\ sent_sequence \in 0..31
          /\ sent_sequence = packetSequence

C19_Witness ==
    /\ pc = "exchange"
    /\ entry[2] = 31
    /\ packet_index = 2
    /\ last_packet_received # NoPacket
    /\ last_packet_received.sequence = 0
    /\ sent_sequence = 1
    /\ messageSequence = 15

\* C20: message_sequence is written only as the call returns, to
\* (response.sequence + 1) mod 16, and on resync, to 0: while the call runs
\* and whenever it fails with Protocol it has the value it had when the call
\* began, also when accepted replies have advanced packet_sequence and the
\* memo.
C20_MessageSequenceWrites ==
    /\ ~Done => messageSequence = entry[1]
    /\ Done => IF raised = "none"
               THEN messageSequence = (pod_sequence + 1) % 16
               ELSE IF raised = OutOfSync
               THEN messageSequence = 0
               ELSE messageSequence = entry[1]
    /\ (Done /\ escaped = "ProtocolError") =>
          /\ raised = "ProtocolError"
          /\ messageSequence = entry[1]

C20_Witness ==
    /\ Done
    /\ escaped = "ProtocolError"
    /\ reason = "Received message is not valid"
    /\ entry[1] = 15
    /\ messageSequence = 15
    /\ con_count = 1
    /\ packetSequence # entry[2]
    /\ last_packet_received # entry[3]

====
